---- MODULE Spec2Model ----
(***************************************************************************)
(* A model of piet-raqote's RaqoteRenderContext (src/src/lib.rs) and its   *)
(* image store (src/src/image.rs).                                         *)
(*                                                                         *)
(* Conventions.                                                            *)
(*  - f64 coordinates are fixed-point integers counting quarters of a      *)
(*    pixel (4 = 1.0), so that fractional rectangles can be written.       *)
(*  - A packed u32 pixel is the tuple of its four little-endian bytes, as  *)
(*    u32::from_le_bytes takes them.                                       *)
(*  - `call` holds the last call made on the context: its name, its        *)
(*    arguments and locals, and what it returned ("panic" when it          *)
(*    unwinds).                                                            *)
(*  - `run` and `marks` are history variables: they observe the calls and  *)
(*    are read by no operation.                                            *)
(*  - `glyph_cache` is the Cache's slot for the glyph cache and `text` is   *)
(*    the draw_text call in progress: where it stands, the glyph cache it  *)
(*    holds, the glyphs left to draw; its field `created` counts the glyph *)
(*    caches made so far and is read by no decision of the code.           *)
(***************************************************************************)
EXTENDS Integers, Sequences, FiniteSets, TLC

VARIABLES states, clip_stack, data, call, run, marks, glyph_cache, text

vars == <<states, clip_stack, data, call, run, marks, glyph_cache, text>>

(***************************************************************************)
(* Bounds of the model.                                                    *)
(***************************************************************************)
MaxDepth == 3
MaxClips == 2

(***************************************************************************)
(* The raster target: DrawTarget<B> of dt_width x dt_height pixels.        *)
(***************************************************************************)
DtWidth == 2
DtHeight == 2

\* Option<T>: None is the empty sequence, Some(x) the sequence of x alone.
None == <<>>
Some(x) == <<x>>

ZeroPixel == <<0, 0, 0, 0>>

Min(a, b) == IF a < b THEN a ELSE b
Max(a, b) == IF a > b THEN a ELSE b

\* kurbo::Rect in quarter pixels.
Rect(x0, y0, x1, y1) == [x0 |-> x0, y0 |-> y0, x1 |-> x1, y1 |-> y1]

\* A rectangle with whole-pixel corners.
PxRect(x0, y0, x1, y1) == Rect(4 * x0, 4 * y0, 4 * x1, 4 * y1)

\* kurbo::Affine, its six coefficients.
IDENTITY == <<1, 0, 0, 1, 0, 0>>

\* ContextState::default()
DefaultState == [transform |-> IDENTITY, clip |-> None]

Top(s) == s[Len(s)]

(***************************************************************************)
(* History: the run of save() calls followed by restore() calls in         *)
(* progress, and the backend clip depth at each unmatched save().          *)
(***************************************************************************)
Snapshot == [transform |-> Top(states).transform,
             clip |-> Top(states).clip,
             clips |-> clip_stack]

IdleRun == [phase |-> "idle", n |-> 0, m |-> 0, ok |-> TRUE, before |-> None]

RunAfterSave ==
    IF run.phase = "saving"
    THEN [run EXCEPT !.n = @ + 1]
    ELSE [phase |-> "saving", n |-> 1, m |-> 0, ok |-> TRUE, before |-> Some(Snapshot)]

RunAfterRestore(result) ==
    IF run.phase \in {"saving", "restoring"} /\ run.m < run.n
    THEN [run EXCEPT !.phase = "restoring", !.m = @ + 1,
                     !.ok = @ /\ result = "Ok"]
    ELSE IdleRun

RunAfterOther == IdleRun

(***************************************************************************)
(* The state stack (lib.rs, save / restore / transform /                   *)
(* current_transform), as functions of the TinyVec `states`.               *)
(***************************************************************************)
save(s) == Append(s, [transform |-> Top(s).transform, clip |-> Top(s).clip])

restore_offbyone(s) ==
    IF Len(s) <= 2
    THEN [result |-> "StackUnbalance", states |-> s]
    ELSE [result |-> "Ok", states |-> SubSeq(s, 1, Len(s) - 1)]

restore_resets(s) ==
    IF Len(s) = 1
    THEN [result |-> "StackUnbalance", states |-> <<DefaultState>>]
    ELSE [result |-> "Ok", states |-> SubSeq(s, 1, Len(s) - 1)]

restore_unguarded(s) ==
    IF Len(s) = 0
    THEN [result |-> "StackUnbalance", states |-> s]
    ELSE [result |-> "Ok", states |-> SubSeq(s, 1, Len(s) - 1)]

restore(s) ==
    IF Len(s) = 1
    THEN [result |-> "StackUnbalance", states |-> s]
    ELSE [result |-> "Ok", states |-> SubSeq(s, 1, Len(s) - 1)]

\* kurbo's Affine * Affine.
Mul(p, q) ==
    << p[1] * q[1] + p[3] * q[2],
       p[2] * q[1] + p[4] * q[2],
       p[1] * q[3] + p[3] * q[4],
       p[2] * q[3] + p[4] * q[4],
       p[1] * q[5] + p[3] * q[6] + p[5],
       p[2] * q[5] + p[4] * q[6] + p[6] >>

transform_composes(s, t) == [s EXCEPT ![Len(s)].transform = Mul(@, t)]

transform(s, t) == [s EXCEPT ![Len(s)].transform = t]

current_transform(s) == Top(s).transform

(***************************************************************************)
(* The raster target's pixels, row-major, and the backend's clip stack.    *)
(***************************************************************************)
DtRect == PxRect(0, 0, DtWidth, DtHeight)

PixelIndex(x, y) == y * DtWidth + x + 1

\* Whether the centre of pixel (x, y) lies in the rectangle r.
Covers(r, x, y) ==
    /\ r.x0 <= 4 * x + 2 /\ 4 * x + 2 < r.x1
    /\ r.y0 <= 4 * y + 2 /\ 4 * y + 2 < r.y1

\* Whether the backend's clip stack lets pixel (x, y) through.
Unclipped(clips, x, y) == \A i \in 1..Len(clips) : Covers(clips[i], x, y)

\* The backend painting `pixel` over the rectangle r, under the clip stack.
Paint(d, clips, r, pixel) ==
    [k \in 1..Len(d) |->
        LET x == (k - 1) % DtWidth
            y == (k - 1) \div DtWidth
        IN IF Covers(r, x, y) /\ Unclipped(clips, x, y) THEN pixel ELSE d[k]]

\* convert::to_color and raqote's packing of an opaque (r, g, b, a) colour.
to_color(c) == <<c[3], c[2], c[1], c[4]>>

(***************************************************************************)
(* Inputs.                                                                 *)
(***************************************************************************)
Transforms == {<<2, 0, 0, 2, 0, 0>>, <<1, 0, 0, 1, 1, 2>>}

ClipShapes == {PxRect(0, 0, 1, DtHeight), PxRect(0, 0, DtWidth, 1)}

Regions == {None}

Colors == {<<255, 0, 0, 255>>}

\* A call, its arguments and locals, its result, and the value returned if any.
Call(op, args, result, value) ==
    [op |-> op, args |-> args, result |-> result, value |-> value]

\* No draw_text call is in progress; `created` glyph caches were made so far.
TextIdle(created) ==
    [pc |-> "idle", held |-> None, pos |-> <<0, 0>>, queue |-> <<>>,
     created |-> created]

\* Cache::new: no glyph cache yet.
IdleText == TextIdle(0)

(***************************************************************************)
(* RaqoteRenderContext::new                                                *)
(***************************************************************************)
Init ==
    /\ states = <<DefaultState>>
    /\ clip_stack = <<>>
    /\ data = [k \in 1..(DtWidth * DtHeight) |-> ZeroPixel]
    /\ call = Call("new", <<>>, "Ok", None)
    /\ run = IdleRun
    /\ marks = <<>>
    /\ glyph_cache = None
    /\ text = IdleText

Save ==
    /\ Len(states) < MaxDepth
    /\ states' = save(states)
    /\ call' = Call("save", <<>>, "Ok", None)
    /\ run' = RunAfterSave
    /\ marks' = Append(marks, Len(clip_stack))
    /\ UNCHANGED <<glyph_cache, text, clip_stack, data>>

Restore ==
    LET r == restore(states) IN
    /\ states' = r.states
    /\ call' = Call("restore", <<>>, r.result, None)
    /\ run' = RunAfterRestore(r.result)
    /\ marks' = IF r.result = "Ok" THEN SubSeq(marks, 1, Len(marks) - 1) ELSE marks
    /\ UNCHANGED <<glyph_cache, text, clip_stack, data>>

Transform ==
    \E t \in Transforms \cup {IDENTITY} :
        /\ states' = transform(states, t)
        /\ call' = Call("transform", <<t>>, "Ok", None)
        /\ run' = RunAfterOther
        /\ UNCHANGED <<glyph_cache, text, clip_stack, data, marks>>

CurrentTransform ==
    /\ call' = Call("current_transform", <<>>, "Ok", Some(current_transform(states)))
    /\ run' = RunAfterOther
    /\ UNCHANGED <<glyph_cache, text, states, clip_stack, data, marks>>

Clip ==
    \E shape \in ClipShapes :
        /\ Len(clip_stack) < MaxClips
        /\ clip_stack' = Append(clip_stack, shape)
        /\ call' = Call("clip", <<shape>>, "Ok", None)
        /\ run' = RunAfterOther
        /\ UNCHANGED <<glyph_cache, text, states, data, marks>>

Clear ==
    \E region \in Regions, color \in Colors :
        LET r == IF region = None THEN DtRect ELSE region[1] IN
        /\ data' = Paint(data, clip_stack, r, to_color(color))
        /\ call' = Call("clear", <<region, color>>, "Ok", None)
        /\ run' = RunAfterOther
        /\ UNCHANGED <<glyph_cache, text, states, clip_stack, marks>>

Next ==
    \/ Save
    \/ Restore
    \/ Transform
    \/ CurrentTransform
    \/ Clip
    \/ Clear

Spec == Init /\ [][Next]_vars

(***************************************************************************)
(* The state stack's claims, under Spec.                                   *)
(***************************************************************************)

\* C1: after N save() calls followed by N restore() calls, every restore()
\* has succeeded, and the current transform, the top state's clip and the
\* backend's clip stack are what they were before the first save().
C1_SaveRestoreRoundTrip ==
    /\ run.phase \in {"saving", "restoring"} => run.ok
    /\ (run.phase = "restoring" /\ run.m = run.n) =>
          /\ Top(states).transform = run.before[1].transform
          /\ Top(states).clip = run.before[1].clip
          /\ clip_stack = run.before[1].clips

C1_Witness ==
    /\ run.phase = "restoring" /\ run.n = 2 /\ run.m = 2
    /\ call.op = "restore" /\ call.result = "Ok"
    /\ Top(states).transform # IDENTITY
    /\ clip_stack # <<>>

\* C2: restore() with exactly one state on the stack returns StackUnbalance
\* and leaves the stack as it was: depth 1, the same base state.
C2_RestoreUnbalanced ==
    [][(call'.op = "restore" /\ Len(states) = 1) =>
          /\ call'.result = "StackUnbalance"
          /\ Len(states') = 1
          /\ states' = states]_vars

C2_Witness ==
    /\ call.op = "restore" /\ call.result = "StackUnbalance"
    /\ Len(states) = 1
    /\ Top(states).transform # IDENTITY

\* C3: each successful restore() removes from the backend exactly the clips
\* pushed by clip() since the matching save(): the backend's clip stack is
\* cut back to its depth at that save().
C3_RestorePopsClips ==
    [][(call'.op = "restore" /\ call'.result = "Ok") =>
          clip_stack' = SubSeq(clip_stack, 1, marks[Len(marks)])]_vars

\* C4: the state stack always holds at least one entry, and a step that
\* shortens it removes entries from the top only, never the bottom one.
C4_StackNonEmpty ==
    /\ [](Len(states) >= 1)
    /\ [][Len(states') < Len(states) =>
            /\ Len(states') >= 1
            /\ states' = SubSeq(states, 1, Len(states'))]_vars

C4_Witness ==
    /\ call.op = "restore" /\ call.result = "Ok"
    /\ Len(states) = 1
    /\ data # [k \in 1..(DtWidth * DtHeight) |-> ZeroPixel]
    /\ clip_stack # <<>>

\* C5: transform(T) makes T the top entry's transform whatever it was, and
\* leaves the entries below alone; current_transform() returns the top
\* entry's transform and changes nothing.
C5_TransformReplaces ==
    [][/\ call'.op = "transform" =>
            /\ Len(states') = Len(states)
            /\ Top(states').transform = call'.args[1]
            /\ Top(states').clip = Top(states).clip
            /\ SubSeq(states', 1, Len(states) - 1) = SubSeq(states, 1, Len(states) - 1)
       /\ call'.op = "current_transform" =>
            /\ call'.value = Some(Top(states).transform)
            /\ states' = states
            /\ clip_stack' = clip_stack
            /\ data' = data]_vars

C5_Witness ==
    /\ call.op = "current_transform"
    /\ call.value = Some(<<2, 0, 0, 2, 0, 0>>)
    /\ Len(states) = 2
    /\ states[1].transform = <<1, 0, 0, 1, 1, 2>>

(***************************************************************************)
(* The image store: make_image (lib.rs) and RaqoteImage (image.rs).        *)
(***************************************************************************)
U8Max == 255

\* piet::ImageFormat; "Other" stands for a variant the match does not name.
Formats == {"RgbaPremul", "RgbaSeparate", "Rgb", "Grayscale", "Other"}

\* RaqoteImage::new
RaqoteImage(width, height, d) == [width |-> width, height |-> height, data |-> d]

\* slice::chunks_exact(n), n > 0: the whole chunks of n elements, the rest dropped.
chunks_exact(buf, n) ==
    [i \in 1..(Len(buf) \div n) |-> SubSeq(buf, (i - 1) * n + 1, i * n)]

\* The f32 quotient n / d of two positive integers below 2^24, as <<m, s>>
\* for m / 2^s with a mantissa m of 24 bits, rounded to nearest, ties to
\* even.  F32Scale carries the long division on until the quotient q has 24
\* bits; r is the remainder.
RECURSIVE F32Scale(_, _, _, _)
F32Scale(q, r, d, s) ==
    IF q >= 2^23
    THEN <<q, r, s>>
    ELSE F32Scale(2 * q + (IF 2 * r >= d THEN 1 ELSE 0), (2 * r) % d, d, s + 1)

F32Div(n, d) ==
    IF n = 0
    THEN <<0, 0>>
    ELSE LET t == F32Scale(n \div d, n % d, d, 0)
             up == 2 * t[2] > d \/ (2 * t[2] = d /\ t[1] % 2 = 1)
         IN <<IF up THEN t[1] + 1 ELSE t[1], t[3]>>

\* f32::round of m / 2^s >= 0: to the nearest integer, halves away from zero.
F32Round(f) ==
    IF f[2] = 0 THEN f[1] ELSE ((f[1] \div 2^(f[2] - 1)) + 1) \div 2

\* `as u8` of a non-negative integral f32: saturating.
AsU8(x) == IF x > U8Max THEN U8Max ELSE x

premultiply_truncates(source, a) == (source * a) \div U8Max

\* The closure of make_image's RgbaSeparate arm.
premultiply(source, a) == AsU8(F32Round(F32Div(source * a, U8Max)))

make_image_data(buf, format) ==
    CASE format = "RgbaPremul" ->
            chunks_exact(buf, 4)
      [] format = "RgbaSeparate" ->
            [i \in 1..(Len(buf) \div 4) |->
                LET chunk == chunks_exact(buf, 4)[i]
                    a == chunk[4]
                IN <<premultiply(chunk[1], a), premultiply(chunk[2], a),
                     premultiply(chunk[3], a), a>>]
      [] format = "Rgb" ->
            [i \in 1..(Len(buf) \div 3) |->
                LET chunk == chunks_exact(buf, 3)[i]
                IN <<chunk[1], chunk[2], chunk[3], U8Max>>]
      [] format = "Grayscale" ->
            [i \in 1..Len(buf) |-> <<buf[i], buf[i], buf[i], U8Max>>]

make_image(width, height, buf, format) ==
    IF format \in {"RgbaPremul", "RgbaSeparate", "Rgb", "Grayscale"}
    THEN [result |-> "Ok",
          image |-> Some(RaqoteImage(width, height, make_image_data(buf, format)))]
    ELSE [result |-> "NotSupported", image |-> None]

\* `as usize` of an f64 in quarter pixels: truncated, negatives to 0.
AsUsize(x) == IF x <= 0 THEN 0 ELSE x \div 4

\* `as usize` of a product of two f64 in quarter pixels (Rect::area).
AreaAsUsize(w, h) == IF w * h <= 0 THEN 0 ELSE (w * h) \div 16

\* AsImage for DrawTarget
dt_as_image(d) == [width |-> DtWidth, height |-> DtHeight, data |-> d]

\* RaqoteImage::from_region.  It panics where chunks_exact(0) or a slice out
\* of a row's range does.
from_region(src_image, src_rect) ==
    LET src_x == AsUsize(src_rect.x0)
        src_y == AsUsize(src_rect.y0)
        src_width == AsUsize(src_rect.x1 - src_rect.x0)
        src_height == AsUsize(src_rect.y1 - src_rect.y0)
        len == AreaAsUsize(src_rect.x1 - src_rect.x0, src_rect.y1 - src_rect.y0)
        rows == IF src_image.width = 0 THEN 0
                ELSE Len(src_image.data) \div src_image.width
        taken == Max(0, Min(src_height, rows - src_y))
        output ==
            [k \in 1..len |->
                IF src_width > 0 /\ k <= taken * src_width
                THEN LET i == (k - 1) \div src_width
                         j == (k - 1) % src_width
                     IN src_image.data[(src_y + i) * src_image.width + src_x + j + 1]
                ELSE ZeroPixel]
    IN IF \/ src_image.width = 0
          \/ (taken > 0 /\ src_x + src_width > src_image.width)
          \/ taken * src_width > len
       THEN [result |-> "panic", image |-> None]
       ELSE [result |-> "Ok",
             image |-> Some(RaqoteImage(src_width, src_height, output))]

\* DrawTarget::draw_image_with_size_at: the image, scaled to the rectangle
\* dst, painted under the clip stack; each covered pixel takes the sample
\* its centre falls on.
Blit(d, clips, dst, img) ==
    [k \in 1..Len(d) |->
        LET x == (k - 1) % DtWidth
            y == (k - 1) \div DtWidth
            u == ((4 * x + 2 - dst.x0) * img.width) \div (dst.x1 - dst.x0)
            v == ((4 * y + 2 - dst.y0) * img.height) \div (dst.y1 - dst.y0)
            at == v * img.width + u + 1
        IN IF /\ Covers(dst, x, y) /\ Unclipped(clips, x, y)
              /\ at \in 1..Len(img.data)
           THEN img.data[at]
           ELSE d[k]]

(***************************************************************************)
(* Inputs of the image operations.                                         *)
(***************************************************************************)
MaxDim == 2
MaxSlack == 1

\* piet::ImageFormat::bytes_per_pixel
BytesPerPixel(format) ==
    CASE format \in {"RgbaPremul", "RgbaSeparate"} -> 4
      [] format = "Rgb" -> 3
      [] OTHER -> 1

\* A byte buffer of n bytes, all different.
Buf(n) == [i \in 1..n |-> (37 * i + 11) % (U8Max + 1)]

\* Source rectangles: inside the 2 x 2 corner, with whole and fractional
\* corners, and reaching outside it to the right, below and to the left.
SrcRects ==
    { PxRect(0, 0, 1, 1), PxRect(1, 0, 2, 1), PxRect(0, 0, 2, 2),
      Rect(0, 0, 6, 6), Rect(2, 2, 6, 6),
      PxRect(1, 0, 3, 1), PxRect(0, 1, 2, 3), PxRect(-1, 0, 1, 1) }

DstRects == {DtRect, PxRect(0, 0, 1, 1)}

\* Images the caller holds: 2 x 2 and 2 x 1 ones made by make_image, one
\* it made from a buffer a byte short, and an empty one.
InputImages ==
    { make_image(2, 2, Buf(4), "Grayscale").image[1],
      make_image(2, 1, Buf(8), "RgbaPremul").image[1],
      make_image(2, 2, Buf(3), "Grayscale").image[1],
      make_image(0, 0, Buf(0), "Rgb").image[1] }

(***************************************************************************)
(* The image operations of the context.  `call.value` is the image the     *)
(* call made: the one returned, or draw_image_area's local src_image.      *)
(***************************************************************************)
\* The arguments of a make_image call.
MakeArgs(width, height, buf, format) ==
    [width |-> width, height |-> height, format |-> format, buf |-> buf]

\* Buffers of the right length, and up to MaxSlack bytes shorter or longer.
MakeImageInputs ==
    { MakeArgs(width, height,
               Buf(Max(0, width * height * BytesPerPixel(format) + slack)), format) :
        width \in 0..MaxDim, height \in 0..MaxDim, format \in Formats,
        slack \in (0 - MaxSlack)..MaxSlack }

\* One separate-alpha pixel, over every colour byte and every alpha.
MakePixelInputs ==
    { MakeArgs(1, 1, <<r, U8Max - r, (r + 85) % (U8Max + 1), a>>, "RgbaSeparate") :
        r \in 0..U8Max, a \in 0..U8Max }

\* A context on which make_image has been called with some input.
InitMake ==
    /\ states = <<DefaultState>>
    /\ clip_stack = <<>>
    /\ data = [k \in 1..(DtWidth * DtHeight) |-> ZeroPixel]
    /\ call \in { Call("make_image", args, "pending", None) :
                    args \in MakeImageInputs \cup MakePixelInputs }
    /\ run = IdleRun
    /\ marks = <<>>
    /\ glyph_cache = None
    /\ text = IdleText

\* make_image runs to its return.
MakeImage ==
    LET r == make_image(call.args.width, call.args.height,
                        call.args.buf, call.args.format) IN
    /\ call.op = "make_image" /\ call.result = "pending"
    /\ call' = [call EXCEPT !.result = r.result, !.value = r.image]
    /\ run' = RunAfterOther
    /\ UNCHANGED <<glyph_cache, text, states, clip_stack, data, marks>>

DrawImageAreaOp(op, img, src_rect, dst_rect) ==
    LET r == from_region(img, src_rect) IN
    /\ call' = Call(op, [image |-> img, src_rect |-> src_rect, dst_rect |-> dst_rect],
                    r.result, r.image)
    /\ data' = IF r.result = "Ok"
               THEN Blit(data, clip_stack, dst_rect, r.image[1])
               ELSE data
    /\ run' = RunAfterOther
    /\ UNCHANGED <<glyph_cache, text, states, clip_stack, marks>>

DrawImageArea ==
    \E img \in InputImages, src_rect \in SrcRects, dst_rect \in DstRects :
        DrawImageAreaOp("draw_image_area", img, src_rect, dst_rect)

DrawImage ==
    \E img \in InputImages, dst_rect \in DstRects :
        DrawImageAreaOp("draw_image", img, PxRect(0, 0, img.width, img.height), dst_rect)

CaptureImageArea ==
    \E src_rect \in SrcRects :
        LET r == from_region(dt_as_image(data), src_rect) IN
        /\ call' = Call("capture_image_area", [src_rect |-> src_rect],
                        r.result, r.image)
        /\ run' = RunAfterOther
        /\ UNCHANGED <<glyph_cache, text, states, clip_stack, data, marks>>

NextMake == MakeImage

SpecMake == InitMake /\ [][NextMake]_vars

NextImage ==
    \/ DrawImageArea
    \/ DrawImage
    \/ CaptureImageArea

SpecImage == Init /\ [][NextImage]_vars

(***************************************************************************)
(* The image store's claims, under SpecMake and SpecImage.                 *)
(***************************************************************************)

\* C6: make_image with a buffer whose length is not width x height x
\* bytes-per-pixel(format) returns a size-mismatch error and no image.
C6_RejectsSizeMismatch ==
    ( /\ call.op = "make_image" /\ call.result # "pending"
      /\ call.args.format # "Other"
      /\ Len(call.args.buf) #
            call.args.width * call.args.height * BytesPerPixel(call.args.format) )
    => (call.result = "SizeMismatch" /\ call.value = None)

\* Whether the rectangle r lies inside an image of width x height pixels.
Inside(r, width, height) ==
    /\ 0 <= r.x0 /\ r.x0 <= r.x1 /\ r.x1 <= 4 * width
    /\ 0 <= r.y0 /\ r.y0 <= r.y1 /\ r.y1 <= 4 * height

\* C7: draw_image_area and capture_image_area with a src_rect that is not
\* inside the source's bounds end with a reported error: they neither
\* panic nor return normally.
C7_RejectsOutOfBounds ==
    /\ ( /\ call.op = "draw_image_area"
         /\ ~Inside(call.args.src_rect, call.args.image.width, call.args.image.height) )
       => call.result \notin {"Ok", "panic"}
    /\ ( /\ call.op = "capture_image_area"
         /\ ~Inside(call.args.src_rect, DtWidth, DtHeight) )
       => call.result \notin {"Ok", "panic"}

\* Whether an image holds width x height pixels.
WellFormed(img) == Len(img.data) = img.width * img.height

\* C8: every image a call makes from an accepted input holds width x
\* height pixels: the image make_image returns for a buffer of the right
\* length, and the one draw_image_area extracts or capture_image_area
\* returns for a src_rect inside its (well-formed) source, be its corners
\* whole or fractional.
C8_ImageBufferLength ==
    /\ ( /\ call.op = "make_image" /\ call.result = "Ok"
         /\ Len(call.args.buf) =
               call.args.width * call.args.height * BytesPerPixel(call.args.format) )
       => WellFormed(call.value[1])
    /\ ( /\ call.op \in {"draw_image_area", "draw_image"} /\ call.result = "Ok"
         /\ WellFormed(call.args.image)
         /\ Inside(call.args.src_rect, call.args.image.width, call.args.image.height) )
       => WellFormed(call.value[1])
    /\ ( /\ call.op = "capture_image_area" /\ call.result = "Ok"
         /\ Inside(call.args.src_rect, DtWidth, DtHeight) )
       => WellFormed(call.value[1])

\* round(c x a / 255) in exact arithmetic.
RoundedPremultiply(c, a) == (2 * c * a + U8Max) \div (2 * U8Max)

\* C9: make_image with the separate-alpha format turns every input pixel
\* (r, g, b, a) into (round(r a / 255), round(g a / 255), round(b a / 255),
\* a), which is the zero pixel when a = 0.
C9_Premultiply ==
    ( /\ call.op = "make_image" /\ call.result = "Ok"
      /\ call.args.format = "RgbaSeparate" )
    => LET buf == call.args.buf
           out == call.value[1].data
       IN /\ Len(out) = Len(buf) \div 4
          /\ \A i \in 1..Len(out) :
                LET r == buf[4 * i - 3]
                    g == buf[4 * i - 2]
                    b == buf[4 * i - 1]
                    a == buf[4 * i]
                IN /\ out[i] = <<RoundedPremultiply(r, a), RoundedPremultiply(g, a),
                                 RoundedPremultiply(b, a), a>>
                   /\ a = 0 => out[i] = ZeroPixel

C9_Witness ==
    /\ call.op = "make_image" /\ call.result = "Ok"
    /\ call.args.format = "RgbaSeparate"
    /\ call.args.buf = <<U8Max, 0, 84, 0>>
    /\ call.value[1].data = <<ZeroPixel>>

(***************************************************************************)
(* blurred_rect (lib.rs).  The expanded size is computed outside this      *)
(* repository, by piet::util::size_for_blurred_rect: the model lets it be  *)
(* any of BlurSizes, in quarter pixels.                                    *)
(***************************************************************************)
BlurRects == {PxRect(0, 0, 1, 1), PxRect(1, 0, 1, 2), Rect(-2, 2, 4, 6)}

BlurSizes == {<<0, 8>>, <<8, 0>>, <<2, 6>>, <<4, 4>>, <<8, 4>>, <<12, 12>>}

Brushes == {<<0, 0, 255, 255>>}

\* `as i32` of an f64 in quarter pixels: truncated towards zero.
AsI32(x) == IF x >= 0 THEN x \div 4 ELSE 0 - ((0 - x) \div 4)

blur_is_noop_both(width, height) == width = 0 /\ height = 0

\* blurred_rect's early return.
blur_is_noop(width, height) == width = 0 \/ height = 0

\* raqote's Mask { width, height, data: vec![0; width * height] }
Mask(width, height) == [width |-> width, height |-> height, len |-> width * height]

\* DrawTarget::mask: the source composited through the mask, whose corner
\* is at pixel (x, y).
MaskPaint(d, x, y, mask, pixel) ==
    [k \in 1..Len(d) |->
        LET px == (k - 1) % DtWidth
            py == (k - 1) \div DtWidth
        IN IF /\ x <= px /\ px < x + mask.width
              /\ y <= py /\ py < y + mask.height
           THEN pixel
           ELSE d[k]]

BlurredRect ==
    \E rect \in BlurRects, size \in BlurSizes, brush \in Brushes :
        LET width == AsI32(size[1])
            height == AsI32(size[2])
            noop == blur_is_noop(width, height)
            mask == Mask(width, height)
        IN /\ call' = Call("blurred_rect",
                           [rect |-> rect, width |-> width, height |-> height,
                            mask |-> IF noop THEN None ELSE Some(mask)],
                           "Ok", None)
           /\ data' = IF noop
                      THEN data
                      ELSE MaskPaint(data, AsI32(rect.x0), AsI32(rect.y0), mask,
                                     to_color(brush))
           /\ run' = RunAfterOther
           /\ UNCHANGED <<glyph_cache, text, states, clip_stack, marks>>

NextBlur ==
    \/ BlurredRect
    \/ Save
    \/ Restore
    \/ Transform

SpecBlur == Init /\ [][NextBlur]_vars

\* C10: blurred_rect whose expanded size truncates to width 0 or height 0
\* returns without allocating a mask and without writing a pixel: the
\* raster target, the state stack and the clip stack are as before.
C10_BlurNoOp ==
    [][(call'.op = "blurred_rect" /\ (call'.args.width = 0 \/ call'.args.height = 0)) =>
          /\ call'.args.mask = None
          /\ call'.result = "Ok"
          /\ data' = data
          /\ states' = states
          /\ clip_stack' = clip_stack]_vars

C10_Witness ==
    /\ call.op = "blurred_rect"
    /\ call.args.width = 0 /\ call.args.height = 1
    /\ call.args.mask = None
    /\ Len(states) = 2
    /\ \E k \in 1..Len(data) : data[k] # ZeroPixel

(***************************************************************************)
(* Sub-region extraction as a copy, under SpecImage.                       *)
(***************************************************************************)

\* Whether r has whole-pixel corners and lies inside width x height pixels.
WholeInside(r, width, height) ==
    /\ Inside(r, width, height)
    /\ \A c \in {r.x0, r.y0, r.x1, r.y1} : c % 4 = 0

\* Whether `out` is the sub-region r of `src`, pixel for pixel.
ExactCopy(out, src, r) ==
    LET x == r.x0 \div 4
        y == r.y0 \div 4
        w == (r.x1 - r.x0) \div 4
        h == (r.y1 - r.y0) \div 4
    IN /\ out.width = w /\ out.height = h
       /\ Len(out.data) = w * h
       /\ \A i \in 0..(w - 1), j \in 0..(h - 1) :
             LET at == (y + j) * src.width + (x + i) + 1
             IN /\ at \in 1..Len(src.data)
                /\ out.data[j * w + i + 1] = src.data[at]

\* C11: for a src_rect with whole-pixel origin (x, y) and size (w, h) inside
\* the source, capture_image_area and the extraction of draw_image_area
\* yield a w x h image whose pixel (i, j) is the source's pixel
\* (x + i, y + j), and capture_image_area leaves the raster target as it
\* was.
C11_ExactCopy ==
    [][/\ ( /\ call'.op = "capture_image_area"
            /\ WholeInside(call'.args.src_rect, DtWidth, DtHeight) )
          => /\ call'.result = "Ok"
             /\ ExactCopy(call'.value[1], dt_as_image(data), call'.args.src_rect)
             /\ data' = data
       /\ ( /\ call'.op \in {"draw_image_area", "draw_image"}
            /\ WholeInside(call'.args.src_rect,
                           call'.args.image.width, call'.args.image.height) )
          => /\ call'.result = "Ok"
             /\ ExactCopy(call'.value[1], call'.args.image, call'.args.src_rect)]_vars

\* What holds of the code: the same, for a source that is not empty and
\* holds width x height pixels (the raster target always does).
C11_ExactCopyOfWellFormed ==
    [][/\ ( /\ call'.op = "capture_image_area"
            /\ WholeInside(call'.args.src_rect, DtWidth, DtHeight) )
          => /\ call'.result = "Ok"
             /\ ExactCopy(call'.value[1], dt_as_image(data), call'.args.src_rect)
             /\ data' = data
       /\ ( /\ call'.op \in {"draw_image_area", "draw_image"}
            /\ WellFormed(call'.args.image) /\ call'.args.image.width > 0
            /\ WholeInside(call'.args.src_rect,
                           call'.args.image.width, call'.args.image.height) )
          => /\ call'.result = "Ok"
             /\ ExactCopy(call'.value[1], call'.args.image, call'.args.src_rect)]_vars

(***************************************************************************)
(* Text: draw_text walks the layout's runs and glyphs and calls draw_glyph *)
(* for each; draw_glyph takes the glyph cache out of the Cache, renders    *)
(* the glyph with it, and puts it back.                                    *)
(***************************************************************************)
MaxGlyphs == 2

\* piet::util::DEFAULT_TEXT_COLOR
DEFAULT_TEXT_COLOR == <<0, 0, 0, 255>>

\* SwashCache::new, the n-th glyph cache made.
SwashCacheNew(n) == [id |-> n]

take_always_new(slot, created) ==
    [held |-> SwashCacheNew(created + 1), created |-> created + 1]

\* self.cache.glyph_cache.take().unwrap_or_else(SwashCache::new)
take_glyph_cache(slot, created) ==
    IF slot = None
    THEN [held |-> SwashCacheNew(created + 1), created |-> created + 1]
    ELSE [held |-> slot[1], created |-> created]

\* The translation of the outline path, in quarter pixels: the draw
\* position, the run's line_y, the glyph's physical position and its
\* subpixel bins.
GlyphOffset(pos, glyph, run_y) ==
    << pos[1] + 4 * glyph.x + glyph.x_bin,
       pos[2] + run_y + 4 * glyph.y + glyph.y_bin >>

\* offset * outline, the outline being a rectangle with y pointing up:
\* translate(off) * scale_non_uniform(1, -1).
OutlineShape(off, o) == Rect(off[1] + o.x0, off[2] - o.y1, off[1] + o.x1, off[2] - o.y0)

\* Rect::from_origin_size((x, y), (1., 1.)) moved by `off` quarter pixels.
UnitRect(off, x, y) ==
    Rect(off[1] + 4 * x, off[2] + 4 * y, off[1] + 4 * x + 4, off[2] + 4 * y + 4)

\* fill_even_odd of one unit rectangle per pixel of `pixels`, each in its
\* own colour, the rectangles moved by `off`.
FillPixels(d, clips, pixels, off) ==
    [k \in 1..Len(d) |->
        LET x == (k - 1) % DtWidth
            y == (k - 1) \div DtWidth
            hit == {p \in pixels : Covers(UnitRect(off, p[1], p[2]), x, y)}
        IN IF hit # {} /\ Unclipped(clips, x, y)
           THEN to_color((CHOOSE p \in hit : TRUE)[3])
           ELSE d[k]]

\* What draw_glyph paints: the outline moved to the glyph's place, or, for
\* a glyph without outline, the pixels handed over by with_pixels.
draw_glyph(d, clips, pos, glyph, run_y) ==
    IF glyph.outline # None
    THEN LET color == IF glyph.color_opt = None THEN DEFAULT_TEXT_COLOR
                      ELSE glyph.color_opt[1]
         IN Paint(d, clips,
                  OutlineShape(GlyphOffset(pos, glyph, run_y), glyph.outline[1]),
                  to_color(color))
    ELSE FillPixels(d, clips, glyph.pixels, <<0, 0>>)

\* The glyphs of a layout in drawing order, each with its run's line_y.
RECURSIVE layout_glyphs(_)
layout_glyphs(layout) ==
    IF layout = <<>> THEN <<>>
    ELSE [i \in 1..Len(layout[1].glyphs) |->
             [glyph |-> layout[1].glyphs[i], run_y |-> layout[1].line_y]]
         \o layout_glyphs(Tail(layout))

\* Inputs: a glyph with an outline one pixel square above the baseline, a
\* glyph with a one-pixel bitmap and no outline, layouts of one run.
OutlineGlyph ==
    [outline |-> Some(Rect(0, 0, 4, 4)), pixels |-> {},
     x |-> 0, y |-> 0, x_bin |-> 0, y_bin |-> 0,
     color_opt |-> Some(<<255, 0, 0, 255>>)]

BitmapGlyph ==
    [outline |-> None, pixels |-> {<<0, 0, <<0, 255, 0, 255>>>>},
     x |-> 0, y |-> 0, x_bin |-> 0, y_bin |-> 0,
     color_opt |-> None]

Glyphs == {OutlineGlyph, BitmapGlyph}

GlyphSeqs == UNION {[1..n -> Glyphs] : n \in 0..MaxGlyphs}

Layouts == {<<>>} \cup {<<[line_y |-> 4, glyphs |-> g]>> : g \in GlyphSeqs}

Positions == {<<0, 0>>, <<4, 0>>}

\* draw_text is called; with no glyph to draw it returns at once.
DrawText ==
    \E layout \in Layouts, pos \in Positions :
        LET queue == layout_glyphs(layout) IN
        /\ text.pc = "idle"
        /\ text' = IF queue = <<>> THEN text
                   ELSE [text EXCEPT !.pc = "take", !.pos = pos, !.queue = queue]
        /\ call' = Call("draw_text", [layout |-> layout, pos |-> pos],
                        IF queue = <<>> THEN "Ok" ELSE "pending", None)
        /\ run' = RunAfterOther
        /\ UNCHANGED <<glyph_cache, states, clip_stack, data, marks>>

\* draw_glyph begins: the glyph cache leaves the Cache.
TakeGlyphCache ==
    LET t == take_glyph_cache(glyph_cache, text.created) IN
    /\ text.pc = "take"
    /\ glyph_cache' = None
    /\ text' = [text EXCEPT !.pc = "render", !.held = Some(t.held),
                            !.created = t.created]
    /\ UNCHANGED <<states, clip_stack, data, call, run, marks>>

\* draw_glyph renders the glyph with the cache it holds.
RenderGlyph ==
    /\ text.pc = "render"
    /\ data' = draw_glyph(data, clip_stack, text.pos,
                          Head(text.queue).glyph, Head(text.queue).run_y)
    /\ text' = [text EXCEPT !.pc = "return"]
    /\ UNCHANGED <<glyph_cache, states, clip_stack, call, run, marks>>

\* draw_glyph ends: the glyph cache goes back; draw_text moves to the next
\* glyph or returns.
ReturnGlyphCache ==
    /\ text.pc = "return"
    /\ glyph_cache' = Some(text.held[1])
    /\ text' = IF Len(text.queue) = 1 THEN TextIdle(text.created)
               ELSE [text EXCEPT !.pc = "take", !.held = None, !.queue = Tail(@)]
    /\ call' = IF Len(text.queue) = 1 THEN [call EXCEPT !.result = "Ok"] ELSE call
    /\ UNCHANGED <<states, clip_stack, data, run, marks>>

NextText ==
    \/ DrawText
    \/ TakeGlyphCache
    \/ RenderGlyph
    \/ ReturnGlyphCache

SpecText == Init /\ [][NextText]_vars

\* C12: over any sequence of draw_text calls on one Cache the glyph cache
\* is made at most once; between glyph draws, once one was made, the slot
\* is occupied; a glyph draw starts holding nothing, and while it runs it
\* holds the cache and the slot is empty; taking the cache makes one only
\* when the slot is empty and otherwise takes the one in the slot; the end
\* of a glyph draw puts the held cache back.
C12_GlyphCacheDiscipline ==
    /\ [](text.created <= 1)
    /\ []((text.pc \in {"idle", "take"} /\ text.created >= 1) => glyph_cache # None)
    /\ [](text.pc \in {"idle", "take"} => text.held = None)
    /\ [](text.pc \in {"render", "return"} => (text.held # None /\ glyph_cache = None))
    /\ [][(text.pc = "take" /\ text'.pc = "render")
            => IF glyph_cache = None
               THEN text'.created = text.created + 1
               ELSE text'.held = glyph_cache /\ text'.created = text.created]_vars
    /\ [][(text.pc = "return" /\ text'.pc # "return")
            => glyph_cache' = text.held]_vars

\* The second glyph of a draw_text call is being drawn with the cache the
\* first one put back.
C12_Witness ==
    /\ text.pc = "render"
    /\ Len(call.args.layout[1].glyphs) = 2
    /\ Len(text.queue) = 1
    /\ text.created = 1
    /\ text.held = Some(SwashCacheNew(1))

\* C13: drawing a glyph that has no outline fills, for every pixel (x, y)
\* of its bitmap, the unit rectangle at that pixel's place on the target,
\* that is moved by the draw position and the glyph's placement in its
\* run as the outline path is, in the pixel's colour; so the pixels marked
\* follow the draw position.
C13_BitmapAtTarget ==
    [][( /\ text.pc = "render" /\ text'.pc = "return"
         /\ Head(text.queue).glyph.outline = None )
          => data' = FillPixels(data, clip_stack, Head(text.queue).glyph.pixels,
                                GlyphOffset(text.pos, Head(text.queue).glyph,
                                            Head(text.queue).run_y))]_vars

\* What holds of the code: the rectangles sit at the bitmap's own
\* coordinates, wherever the glyph is drawn.
C13_BitmapAtOrigin ==
    [][( /\ text.pc = "render" /\ text'.pc = "return"
         /\ Head(text.queue).glyph.outline = None )
          => data' = FillPixels(data, clip_stack, Head(text.queue).glyph.pixels,
                                <<0, 0>>)]_vars

====
